---- MODULE Spec2Model ----
(***************************************************************************)
(* Model of VectorStoreManager (code/modules/vector_store.py): the          *)
(* incremental synchronisation of a FAISS index with a directory of PDF     *)
(* files, driven by a persisted fingerprint table (file_metadata.json).     *)
(*                                                                          *)
(* The state is the file system (the PDF directory, the index files, the    *)
(* fingerprint file), the manager's configuration, and the position and     *)
(* locals of the one synchronous call that may be in progress.  A call is   *)
(* cut into steps at the places where it calls out to the embedding         *)
(* library or to the disk; pc sequences the steps exactly as the code does. *)
(* The directory changes only between calls (single operator, section 5 of  *)
(* the specification).                                                      *)
(*                                                                          *)
(* The conversation store is modelled beside it: SQLManager                 *)
(* (code/modules/sql.py) as the two tables of chat.db, ChatHistoryManager   *)
(* (code/modules/chat_history.py) as a session with its memory, and         *)
(* RAGQueryProcessor.process_query_with_memory (code/modules/rag_system.py) *)
(* as the call that records an exchange.                                    *)
(***************************************************************************)
EXTENDS Naturals, Integers, Sequences, FiniteSets, TLC

(* ------------------------------ bounds --------------------------------- *)
\* relative paths under pdf_dir
Files == {"a.pdf", "b.pdf"}
\* file contents: "bad" is a file PyMuPDFLoader cannot load
Contents == {"bad", "v1", "v2"}
Loadable == {"v1", "v2"}
\* st_mtime values
MaxMtime == 1
\* number of calls of get_or_create_vectorstore / force_rebuild_vectorstore;
\* it is also the range of the clock read by datetime.now()
MaxPasses == 2
\* values of delete_threshold
MaxThreshold == 2
\* number of changes the operator makes to the file system
MaxEdits == 2
\* number of conversations created in chat.db
MaxConversations == 2
\* number of rows inserted into the messages table
MaxRows == 3
\* values of memory_k
MaxMemoryK == 2
\* number of exchanges saved into the memory of one ChatHistoryManager
MaxExchanges == 3

VARIABLES
    rebuild_on_delete,   \* self.rebuild_on_delete
    delete_threshold,    \* self.delete_threshold
    pdf_dir_exists,      \* whether Path(self.pdf_dir).exists()
    pdf_dir,             \* the *.pdf files below pdf_dir: path -> state
    metadata_file,       \* file_metadata.json
    index_files,         \* index.faiss + index.pkl
    now,                 \* the clock; one tick per call
    edits,               \* number of changes made to the file system
    pc,                  \* position of the call in progress, "idle" if none
    entry,               \* the public method in progress or last run
    vectorstore,         \* local: the in-memory index
    new_files,           \* local: change set
    modified_files,      \* local: change set
    deleted_files,       \* local: change set
    processed_files,     \* local: argument of update_file_metadata
    calls,               \* the calls made by the call in progress or last run
    outcome,             \* how the last call ended
    start,               \* what the call in progress or last run started from
    probe,               \* a helper method called on its own: arguments, result
    database,            \* chat.db: the conversations and messages tables
    chat,                \* the ChatHistoryManager: session, window, memory
    reply                \* the last call on chat.db or on the manager

vars == <<rebuild_on_delete, delete_threshold, pdf_dir_exists, pdf_dir,
          metadata_file, index_files, now, edits, pc, entry, vectorstore,
          new_files, modified_files, deleted_files, processed_files, calls,
          outcome, start, probe, database, chat, reply>>

\* the conversation store, which the vector store never touches
transcript == <<database, chat, reply>>

\* what no step of a call changes
config == <<rebuild_on_delete, delete_threshold, edits, probe, transcript>>
disk == <<pdf_dir_exists, pdf_dir, metadata_file, index_files>>
locals == <<vectorstore, new_files, modified_files, deleted_files, processed_files>>

(* ------------------------------- values -------------------------------- *)
\* a path that is not in the directory
Absent == [present |-> FALSE, content |-> "", mtime |-> 0]

FileStates ==
    {Absent} \cup [present : {TRUE}, content : Contents, mtime : 1..MaxMtime]

\* a chunk: the text_splitter's output for one file, tagged with source_file
Chunks == [source_file : Files, text : Loadable]

\* the documents of an index: how many copies of each chunk it holds
NoDocs == [c \in Chunks |-> 0]

\* the Python value None, for a vectorstore
None == [id |-> "None", docs |-> NoDocs]

EmptyTable == [p \in {} |-> 0]

Call(name, ok) == [f |-> name, ok |-> ok]

Count(name) == Cardinality({i \in DOMAIN calls : calls[i].f = name})

Failed(name) == \E i \in DOMAIN calls : calls[i].f = name /\ ~calls[i].ok

Succeeded(name) == \E i \in DOMAIN calls : calls[i].f = name /\ calls[i].ok

NoOutcome == [status |-> "none", value |-> "None"]

\* file_metadata.json when it does not exist
NoFile == [state |-> "missing", text |-> EmptyTable]

NoStart ==
    [metadata_file |-> NoFile,
     index_files |-> [state |-> "missing", docs |-> NoDocs],
     follows |-> FALSE, previous_failed |-> FALSE,
     previous_ingested |-> FALSE, previous_unrecorded |-> FALSE]

\* chat.db after _init_database: both tables empty, no id given out yet
EmptyDatabase ==
    [conversations |-> {}, messages |-> <<>>,
     sqlite_sequence |-> [conversations |-> 0, messages |-> 0]]

\* no ChatHistoryManager has been constructed
NoChat == [session_id |-> "", memory_k |-> 0, auto_save |-> FALSE, messages |-> <<>>]

NoReply ==
    [f |-> "none", session_id |-> "", value |-> 0, raised |-> FALSE,
     database |-> EmptyDatabase, messages |-> <<>>]

\* no helper method is called on its own
NoProbe ==
    [f |-> "none", applied |-> FALSE, file |-> NoFile, exists |-> TRUE,
     dir |-> [p \in Files |-> Absent], paths |-> {}, table |-> EmptyTable,
     out |-> 0]

(* --------------------------- pure functions ---------------------------- *)
\* hashlib.md5 over the file's bytes: a function of the content alone
_get_file_hash(content) == "md5:" \o content

\* _scan_pdf_files: path -> fingerprint for every *.pdf under pdf_dir;
\* last_processed is None (0 here)
_scan_pdf_files(exists, dir) ==
    IF ~exists THEN EmptyTable
    ELSE [p \in {q \in Files : dir[q].present} |->
            [absolute_path |-> "pdf_dir/" \o p,
             size |-> Len(dir[p].content),
             modified_time |-> dir[p].mtime,
             hash |-> _get_file_hash(dir[p].content),
             last_processed |-> 0]]

\* The literals of the JSON text.  Strings are written in quotes, the size
\* as an integer literal, st_mtime as a float literal, and last_processed as
\* null for None (0 here) or as the quoted isoformat() of the clock.
Quote(s) == "\"" \o s \o "\""

Numerals == 0..9

Strings ==
    Files \cup {"pdf_dir/" \o p : p \in Files}
          \cup {_get_file_hash(c) : c \in Contents}

json_dump_str == [s \in Strings |-> Quote(s)]

json_dump_int == [n \in Numerals |-> ToString(n)]

json_dump_float == [n \in Numerals |-> ToString(n) \o ".0"]

json_dump_time ==
    [n \in Numerals |-> IF n = 0 THEN "null" ELSE Quote("T" \o ToString(n))]

\* the value a parser reads from a literal that dump wrote
Parsed(dump) ==
    [t \in {dump[x] : x \in DOMAIN dump} |->
        CHOOSE x \in DOMAIN dump : dump[x] = t]

json_load_str == Parsed(json_dump_str)

json_load_int == Parsed(json_dump_int)

json_load_float == Parsed(json_dump_float)

json_load_time == Parsed(json_dump_time)

\* json.dump of a fingerprint table: a JSON object with one member per path
json_dump(table) ==
    [k \in {json_dump_str[p] : p \in DOMAIN table} |->
        LET fp == table[json_load_str[k]]
        IN  [absolute_path |-> json_dump_str[fp.absolute_path],
             size |-> json_dump_int[fp.size],
             modified_time |-> json_dump_float[fp.modified_time],
             hash |-> json_dump_str[fp.hash],
             last_processed |-> json_dump_time[fp.last_processed]]]

\* json.load of such a text
json_load(text) ==
    [p \in {json_load_str[k] : k \in DOMAIN text} |->
        LET m == text[json_dump_str[p]]
        IN  [absolute_path |-> json_load_str[m.absolute_path],
             size |-> json_load_int[m.size],
             modified_time |-> json_load_float[m.modified_time],
             hash |-> json_load_str[m.hash],
             last_processed |-> json_load_time[m.last_processed]]]

\* _save_file_metadata, if it added the members to those the file holds
_save_file_metadata_Patch(file, table) ==
    [state |-> "ok", text |-> json_dump(table) @@ file.text]

\* _save_file_metadata: open(..., 'w') and json.dump replace the whole file
_save_file_metadata(file, table) == [state |-> "ok", text |-> json_dump(table)]

\* _get_file_metadata raises when the file cannot be decoded as UTF-8:
\* UnicodeDecodeError is not among the exceptions of line 78
_get_file_metadata_raises(file) == file.state = "undecodable"

\* _get_file_metadata: {} when the file is missing or is not valid JSON
_get_file_metadata(file) ==
    IF file.state = "ok" THEN json_load(file.text) ELSE EmptyTable

\* check_file_changes
NewFilesOf(stored, current) == {p \in DOMAIN current : p \notin DOMAIN stored}

\* the comparison of lines 136-137 without the time stamp
ModifiedFilesOf_HashOnly(stored, current) ==
    {p \in DOMAIN current :
        /\ p \in DOMAIN stored
        /\ current[p].hash # stored[p].hash}

ModifiedFilesOf(stored, current) ==
    {p \in DOMAIN current :
        /\ p \in DOMAIN stored
        /\ \/ current[p].hash # stored[p].hash
           \/ current[p].modified_time # stored[p].modified_time}

\* check_file_changes without the loop of lines 142-145
DeletedFilesOf_None(stored, current) == {}

DeletedFilesOf(stored, current) == {p \in DOMAIN stored : p \notin DOMAIN current}

check_file_changes(file, exists, dir) ==
    LET stored == _get_file_metadata(file)
        current == _scan_pdf_files(exists, dir)
    IN  [new_files |-> NewFilesOf(stored, current),
         modified_files |-> ModifiedFilesOf(stored, current),
         deleted_files |-> DeletedFilesOf(stored, current)]

\* _load_and_split_documents, if one file that is missing or does not load
\* made it give up the whole list
_load_and_split_documents_AllOrNothing(file_paths, exists, dir) ==
    [c \in Chunks |->
        IF /\ c.source_file \in file_paths
           /\ exists
           /\ dir[c.source_file].content = c.text
           /\ \A p \in file_paths : dir[p].present /\ dir[p].content \in Loadable
        THEN 1 ELSE 0]

\* _load_and_split_documents: the chunks of the files of file_paths that exist
\* and load; a missing or unloadable file is skipped
_load_and_split_documents(file_paths, exists, dir) ==
    [c \in Chunks |->
        IF /\ c.source_file \in file_paths
           /\ exists
           /\ dir[c.source_file].present
           /\ dir[c.source_file].content = c.text
        THEN 1 ELSE 0]

AddDocs(docs, more) == [c \in Chunks |-> docs[c] + more[c]]

\* load_vectorstore, if it handed on what FAISS.load_local left of files
\* that do not load
load_vectorstore_Unchecked(files) ==
    IF files.state = "missing" THEN None
    ELSE [id |-> "loaded", docs |-> files.docs]

\* load_vectorstore: None unless both index files exist and load
load_vectorstore(files) ==
    IF files.state = "ok" THEN [id |-> "loaded", docs |-> files.docs] ELSE None

\* vectorstore_exists
vectorstore_exists(files) == files.state # "missing"

\* create_vectorstore_from_files; embed_ok: FAISS.from_documents does not raise
create_vectorstore_from_files(file_paths, exists, dir, embed_ok, id) ==
    LET documents == _load_and_split_documents(file_paths, exists, dir)
    IN  IF file_paths = {} THEN None
        ELSE IF documents = NoDocs THEN None
        ELSE IF embed_ok THEN [id |-> id, docs |-> documents]
        ELSE None

\* the calls create_vectorstore_from_files makes
CreateCalls(file_paths, exists, dir, embed_ok) ==
    IF file_paths = {} THEN <<>>
    ELSE IF _load_and_split_documents(file_paths, exists, dir) = NoDocs
         THEN <<Call("_load_and_split_documents", TRUE)>>
    ELSE <<Call("_load_and_split_documents", TRUE),
           Call("FAISS.from_documents", embed_ok)>>

\* update_file_metadata without its cleanup of lines 310-312
UpdatedTable_NoCleanup(file, processed, exists, dir, clock) ==
    LET stored == _get_file_metadata(file)
        current == _scan_pdf_files(exists, dir)
        keep == DOMAIN stored \cup (processed \cap DOMAIN current)
    IN  [p \in keep |->
            IF p \in processed /\ p \in DOMAIN current
            THEN [current[p] EXCEPT !.last_processed = clock]
            ELSE stored[p]]

\* update_file_metadata without its recording of lines 304-308
UpdatedTable_NoRecord(file, processed, exists, dir, clock) ==
    LET stored == _get_file_metadata(file)
        current == _scan_pdf_files(exists, dir)
    IN  [p \in DOMAIN stored \cap DOMAIN current |-> stored[p]]

\* update_file_metadata: the table it hands to _save_file_metadata
UpdatedTable(file, processed, exists, dir, clock) ==
    LET stored == _get_file_metadata(file)
        current == _scan_pdf_files(exists, dir)
        keep == {p \in DOMAIN current : p \in DOMAIN stored \/ p \in processed}
    IN  [p \in keep |->
            IF p \in processed
            THEN [current[p] EXCEPT !.last_processed = clock]
            ELSE stored[p]]

(* -------------------------------- Init --------------------------------- *)
Idle ==
    /\ rebuild_on_delete \in BOOLEAN
    /\ delete_threshold \in 1..MaxThreshold
    /\ pdf_dir_exists = TRUE
    /\ pdf_dir = [p \in Files |-> Absent]
    /\ metadata_file = NoFile
    /\ index_files = [state |-> "missing", docs |-> NoDocs]
    /\ now = 0
    /\ edits = 0
    /\ pc = "idle"
    /\ entry = "none"
    /\ vectorstore = None
    /\ new_files = {}
    /\ modified_files = {}
    /\ deleted_files = {}
    /\ processed_files = {}
    /\ calls = <<>>
    /\ outcome = NoOutcome
    /\ start = NoStart
    /\ database = EmptyDatabase
    /\ chat = NoChat
    /\ reply = NoReply

\* the state after __init__: nothing persisted yet, no call made
Init == Idle /\ probe = NoProbe

(* ---------------------- the operator's file system --------------------- *)
\* A change of the file system ends "twice in a row": the record of the
\* last call (its locals, its calls, its outcome) is dropped.
Forget ==
    /\ edits < MaxEdits
    /\ edits' = edits + 1
    /\ vectorstore' = None
    /\ new_files' = {}
    /\ modified_files' = {}
    /\ deleted_files' = {}
    /\ processed_files' = {}
    /\ calls' = <<>>
    /\ outcome' = NoOutcome
    /\ start' = NoStart
    /\ entry' = "none"
    /\ UNCHANGED <<rebuild_on_delete, delete_threshold, now, pc, probe,
                   transcript>>

\* a file is created, edited or touched
WriteFile ==
    /\ pc = "idle"
    /\ pdf_dir_exists
    /\ \E p \in Files, c \in Contents, t \in 1..MaxMtime :
        /\ pdf_dir[p] # [present |-> TRUE, content |-> c, mtime |-> t]
        /\ pdf_dir' = [pdf_dir EXCEPT ![p] = [present |-> TRUE, content |-> c, mtime |-> t]]
    /\ UNCHANGED <<pdf_dir_exists, metadata_file, index_files>>
    /\ Forget

DeleteFile ==
    /\ pc = "idle"
    /\ \E p \in Files :
        /\ pdf_dir[p].present
        /\ pdf_dir' = [pdf_dir EXCEPT ![p] = Absent]
    /\ UNCHANGED <<pdf_dir_exists, metadata_file, index_files>>
    /\ Forget

\* a file is renamed: the path goes, another path gets its bytes and st_mtime
RenameFile ==
    /\ pc = "idle"
    /\ \E p \in Files, q \in Files :
        /\ pdf_dir[p].present
        /\ ~pdf_dir[q].present
        /\ pdf_dir' = [pdf_dir EXCEPT ![p] = Absent, ![q] = pdf_dir[p]]
    /\ UNCHANGED <<pdf_dir_exists, metadata_file, index_files>>
    /\ Forget

\* the whole directory is removed, or made again
RemoveDir ==
    /\ pc = "idle"
    /\ pdf_dir_exists
    /\ pdf_dir_exists' = FALSE
    /\ pdf_dir' = [p \in Files |-> Absent]
    /\ UNCHANGED <<metadata_file, index_files>>
    /\ Forget

MakeDir ==
    /\ pc = "idle"
    /\ ~pdf_dir_exists
    /\ pdf_dir_exists' = TRUE
    /\ UNCHANGED <<pdf_dir, metadata_file, index_files>>
    /\ Forget

\* file_metadata.json is damaged: it no longer holds valid JSON, or its
\* bytes are no longer valid UTF-8
CorruptMetadataFile ==
    /\ pc = "idle"
    /\ metadata_file.state = "ok"
    /\ \E s \in {"corrupt", "undecodable"} :
        metadata_file' = [state |-> s, text |-> EmptyTable]
    /\ UNCHANGED <<pdf_dir_exists, pdf_dir, index_files>>
    /\ Forget

\* the index files are damaged (FAISS.load_local raises) or removed
DamageIndexFiles ==
    /\ pc = "idle"
    /\ index_files.state = "ok"
    /\ \E s \in {"corrupt", "missing"} :
        index_files' = [state |-> s, docs |-> NoDocs]
    /\ UNCHANGED <<pdf_dir_exists, pdf_dir, metadata_file>>
    /\ Forget

(* ---------------------- get_or_create_vectorstore ---------------------- *)
\* what a call remembers of the call before it (history, not program state):
\* that call raised, or found no index and failed to build one
RunFailed ==
    \/ outcome.status = "raised"
    \/ /\ Failed("load_vectorstore")
       /\ Failed("FAISS.from_documents")

\* that call embedded documents and wrote the fingerprint table
RunIngested ==
    /\ Succeeded("_save_file_metadata")
    /\ Succeeded("FAISS.from_documents") \/ Succeeded("add_documents")

\* that call put documents into its index and saved it, and raised before
\* the fingerprint table was written
RunUnrecorded ==
    /\ outcome.status = "raised"
    /\ Succeeded("save_vectorstore")
    /\ ~Succeeded("_save_file_metadata")
    /\ \/ Succeeded("FAISS.from_documents")
       \/ Succeeded("add_documents")

\* entering a public method: the clock ticks, the history starts afresh
Enter(method) ==
    /\ pc = "idle"
    /\ now < MaxPasses
    /\ now' = now + 1
    /\ entry' = method
    /\ start' = [metadata_file |-> metadata_file,
                 index_files |-> index_files,
                 follows |-> (entry = "get_or_create_vectorstore"
                              /\ outcome.status # "none"),
                 previous_failed |-> RunFailed,
                 previous_ingested |-> RunIngested,
                 previous_unrecorded |-> RunUnrecorded]

Return(value) ==
    /\ pc' = "idle"
    /\ outcome' = [status |-> "returned", value |-> value.id]

Raise ==
    /\ pc' = "idle"
    /\ outcome' = [status |-> "raised", value |-> "None"]

\* lines 368-374: load_vectorstore, then check_file_changes, which passes on
\* the exception of _get_file_metadata
GetOrCreate_Load ==
    /\ Enter("get_or_create_vectorstore")
    /\ vectorstore' = load_vectorstore(index_files)
    /\ processed_files' = {}
    /\ IF _get_file_metadata_raises(metadata_file)
       THEN /\ new_files' = {}
            /\ modified_files' = {}
            /\ deleted_files' = {}
            /\ calls' = <<Call("load_vectorstore", index_files.state = "ok"),
                          Call("check_file_changes", FALSE)>>
            /\ Raise
       ELSE LET changes == check_file_changes(metadata_file, pdf_dir_exists, pdf_dir)
            IN  /\ new_files' = changes.new_files
                /\ modified_files' = changes.modified_files
                /\ deleted_files' = changes.deleted_files
                /\ calls' = <<Call("load_vectorstore", index_files.state = "ok"),
                              Call("check_file_changes", TRUE)>>
                /\ pc' = "branch"
                /\ outcome' = NoOutcome
    /\ UNCHANGED <<config, disk>>

\* the bootstrap branch, if it built the index from the change set
GetOrCreate_Create_ChangeSetOnly ==
    /\ pc = "branch"
    /\ vectorstore = None
    /\ LET all_files == new_files \cup modified_files
       IN  \E embed_ok \in BOOLEAN :
            /\ vectorstore' = create_vectorstore_from_files(
                                all_files, pdf_dir_exists, pdf_dir, embed_ok, "created")
            /\ calls' = calls \o CreateCalls(all_files, pdf_dir_exists, pdf_dir, embed_ok)
            /\ processed_files' = all_files
            /\ IF vectorstore' = None
               THEN Return(None)
               ELSE pc' = "save" /\ UNCHANGED outcome
    /\ UNCHANGED <<config, disk, now, entry, new_files, modified_files,
                   deleted_files, start>>

\* lines 377-389: no index was loaded; build one from every scanned file
GetOrCreate_Create ==
    /\ pc = "branch"
    /\ vectorstore = None
    /\ LET all_files == DOMAIN _scan_pdf_files(pdf_dir_exists, pdf_dir)
       IN  \E embed_ok \in BOOLEAN :
            /\ vectorstore' = create_vectorstore_from_files(
                                all_files, pdf_dir_exists, pdf_dir, embed_ok, "created")
            /\ calls' = calls \o CreateCalls(all_files, pdf_dir_exists, pdf_dir, embed_ok)
            /\ processed_files' = all_files
            /\ IF vectorstore' = None
               THEN Return(None)
               ELSE pc' = "save" /\ UNCHANGED outcome
    /\ UNCHANGED <<config, disk, now, entry, new_files, modified_files,
                   deleted_files, start>>

\* the update branch, if it recorded the modified files only
GetOrCreate_Update_ModifiedOnly ==
    /\ pc = "branch"
    /\ vectorstore # None
    /\ new_files \cup modified_files \cup deleted_files # {}
    /\ pc' = "update_deleted"
    /\ processed_files' = modified_files
    /\ UNCHANGED <<config, disk, now, entry, vectorstore, new_files,
                   modified_files, deleted_files, calls, outcome, start>>

\* lines 391-393: an index was loaded and something changed
GetOrCreate_Update ==
    /\ pc = "branch"
    /\ vectorstore # None
    /\ new_files \cup modified_files \cup deleted_files # {}
    /\ pc' = "update_deleted"
    /\ processed_files' = new_files \cup modified_files
    /\ UNCHANGED <<config, disk, now, entry, vectorstore, new_files,
                   modified_files, deleted_files, calls, outcome, start>>

\* the no-change branch, if it went on to save like the update branch
GetOrCreate_NoChange_Resave ==
    /\ pc = "branch"
    /\ vectorstore # None
    /\ new_files \cup modified_files \cup deleted_files = {}
    /\ pc' = "save"
    /\ UNCHANGED <<config, disk, now, entry, locals, calls, outcome, start>>

\* lines 397-400: an index was loaded and nothing changed
GetOrCreate_NoChange ==
    /\ pc = "branch"
    /\ vectorstore # None
    /\ new_files \cup modified_files \cup deleted_files = {}
    /\ Return(vectorstore)
    /\ UNCHANGED <<config, disk, now, entry, locals, calls, start>>

(* -------------------------- update_vectorstore ------------------------- *)
\* should_rebuild without the comparison with delete_threshold
should_rebuild_AnyDeletion == rebuild_on_delete

\* lines 252-255
should_rebuild ==
    rebuild_on_delete /\ Cardinality(deleted_files) >= delete_threshold

\* lines 248-271: the deleted files; a rebuild when the threshold is reached
Update_Deleted ==
    /\ pc = "update_deleted"
    /\ IF deleted_files # {} /\ should_rebuild
       THEN LET all_files == DOMAIN _scan_pdf_files(pdf_dir_exists, pdf_dir)
            IN  \E embed_ok \in BOOLEAN :
                 LET rebuilt_vectorstore ==
                        create_vectorstore_from_files(
                            all_files, pdf_dir_exists, pdf_dir, embed_ok, "rebuilt")
                 IN  /\ calls' = calls
                            \o <<Call("_rebuild_vectorstore_from_existing_files",
                                      rebuilt_vectorstore # None)>>
                            \o CreateCalls(all_files, pdf_dir_exists, pdf_dir, embed_ok)
                     /\ IF rebuilt_vectorstore # None
                        THEN vectorstore' = rebuilt_vectorstore /\ pc' = "update_add"
                        ELSE UNCHANGED vectorstore /\ pc' = "save"
       ELSE /\ pc' = "update_add"
            /\ UNCHANGED <<vectorstore, calls>>
    /\ UNCHANGED <<config, disk, now, entry, new_files, modified_files,
                   deleted_files, processed_files, outcome, start>>

\* lines 274-284: the new and modified files are loaded and added
Update_Add ==
    /\ pc = "update_add"
    /\ LET files_to_add == new_files \cup modified_files
           new_documents ==
               _load_and_split_documents(files_to_add, pdf_dir_exists, pdf_dir)
       IN  IF files_to_add = {}
           THEN pc' = "save" /\ UNCHANGED <<vectorstore, calls>>
           ELSE IF new_documents = NoDocs
           THEN /\ pc' = "save"
                /\ calls' = Append(calls, Call("_load_and_split_documents", TRUE))
                /\ UNCHANGED vectorstore
           ELSE \E add_ok \in BOOLEAN :
                 /\ calls' = calls \o <<Call("_load_and_split_documents", TRUE),
                                        Call("add_documents", add_ok)>>
                 /\ IF add_ok
                    THEN /\ vectorstore' =
                              [vectorstore EXCEPT !.docs = AddDocs(@, new_documents)]
                         /\ pc' = "save"
                    ELSE UNCHANGED vectorstore /\ pc' = "update_fallback"
    /\ UNCHANGED <<config, disk, now, entry, new_files, modified_files,
                   deleted_files, processed_files, outcome, start>>

\* the fallback, if it went back to add_documents instead of merging
Update_Fallback_Retry ==
    /\ pc = "update_fallback"
    /\ pc' = "update_add"
    /\ UNCHANGED <<config, disk, now, entry, locals, calls, outcome, start>>

\* lines 285-297: add_documents raised; build a fresh index and merge it
Update_Fallback ==
    /\ pc = "update_fallback"
    /\ LET files_to_add == new_files \cup modified_files
       IN  \E embed_ok \in BOOLEAN, merge_ok \in BOOLEAN :
            LET temp_vectorstore ==
                    create_vectorstore_from_files(
                        files_to_add, pdf_dir_exists, pdf_dir, embed_ok, "temp")
            IN  /\ IF temp_vectorstore # None
                   THEN /\ calls' = calls
                               \o CreateCalls(files_to_add, pdf_dir_exists, pdf_dir, embed_ok)
                               \o <<Call("merge_from", merge_ok)>>
                        /\ vectorstore' =
                             IF merge_ok
                             THEN [vectorstore EXCEPT
                                     !.docs = AddDocs(@, temp_vectorstore.docs)]
                             ELSE vectorstore
                   ELSE /\ calls' = calls
                               \o CreateCalls(files_to_add, pdf_dir_exists, pdf_dir, embed_ok)
                        /\ UNCHANGED vectorstore
    /\ pc' = "save"
    /\ UNCHANGED <<config, disk, now, entry, new_files, modified_files,
                   deleted_files, processed_files, outcome, start>>

(* ------------------- save_vectorstore, update_file_metadata ------------ *)
\* save_vectorstore, if it logged the error of save_local without re-raising
SaveVectorstore_Swallow ==
    /\ pc = "save"
    /\ \E save_ok \in BOOLEAN :
        /\ calls' = Append(calls, Call("save_vectorstore", save_ok))
        /\ IF save_ok
           THEN index_files' = [state |-> "ok", docs |-> vectorstore.docs]
           ELSE UNCHANGED index_files
    /\ pc' = "metadata"
    /\ processed_files' =
         IF entry = "force_rebuild_vectorstore"
         THEN DOMAIN _scan_pdf_files(pdf_dir_exists, pdf_dir)
         ELSE processed_files
    /\ UNCHANGED <<config, pdf_dir_exists, pdf_dir, metadata_file, now, entry,
                   vectorstore, new_files, modified_files, deleted_files,
                   outcome, start>>

\* lines 183-190, called at 388, 394 and 359.  save_local may raise, and
\* the exception is passed on.  (Index files it leaves damaged are
\* DamageIndexFiles.)  At 360 force_rebuild rescans the directory for the
\* argument of update_file_metadata.
SaveVectorstore ==
    /\ pc = "save"
    /\ \E save_ok \in BOOLEAN :
        /\ calls' = Append(calls, Call("save_vectorstore", save_ok))
        /\ IF save_ok
           THEN /\ index_files' = [state |-> "ok", docs |-> vectorstore.docs]
                /\ pc' = "metadata"
                /\ UNCHANGED outcome
           ELSE /\ UNCHANGED index_files
                /\ Raise
    /\ processed_files' =
         IF entry = "force_rebuild_vectorstore"
         THEN DOMAIN _scan_pdf_files(pdf_dir_exists, pdf_dir)
         ELSE processed_files
    /\ UNCHANGED <<config, pdf_dir_exists, pdf_dir, metadata_file, now, entry,
                   vectorstore, new_files, modified_files, deleted_files, start>>

\* lines 299-315, called at 389, 395 and 361; then the method returns.
\* _get_file_metadata may raise at 301.  _save_file_metadata may raise (open
\* or json.dump), and nothing catches it.  (A file it leaves damaged is
\* CorruptMetadataFile.)
UpdateFileMetadata ==
    /\ pc = "metadata"
    /\ IF _get_file_metadata_raises(metadata_file)
       THEN /\ calls' = Append(calls, Call("_get_file_metadata", FALSE))
            /\ UNCHANGED metadata_file
            /\ Raise
       ELSE \E write_ok \in BOOLEAN :
            /\ calls' = Append(calls, Call("_save_file_metadata", write_ok))
            /\ IF write_ok
               THEN /\ metadata_file' =
                         _save_file_metadata(
                             metadata_file,
                             UpdatedTable(metadata_file, processed_files,
                                          pdf_dir_exists, pdf_dir, now))
                    /\ Return(vectorstore)
               ELSE /\ UNCHANGED metadata_file
                    /\ Raise
    /\ UNCHANGED <<config, pdf_dir_exists, pdf_dir, index_files, now, entry,
                   locals, start>>

(* ----------------------- force_rebuild_vectorstore --------------------- *)
\* force_rebuild_vectorstore, if it left the index files in place
ForceRebuild_Remove_KeepsFiles ==
    /\ Enter("force_rebuild_vectorstore")
    /\ vectorstore' = None
    /\ new_files' = {}
    /\ modified_files' = {}
    /\ deleted_files' = {}
    /\ processed_files' = {}
    /\ calls' = <<Call("os.remove", FALSE)>>
    /\ pc' = "force_rebuild"
    /\ outcome' = NoOutcome
    /\ UNCHANGED <<config, disk>>

\* lines 343-354: the index files are removed
ForceRebuild_Remove ==
    /\ Enter("force_rebuild_vectorstore")
    /\ index_files' = [state |-> "missing", docs |-> NoDocs]
    /\ vectorstore' = None
    /\ new_files' = {}
    /\ modified_files' = {}
    /\ deleted_files' = {}
    /\ processed_files' = {}
    /\ calls' = <<Call("os.remove", index_files.state # "missing")>>
    /\ pc' = "force_rebuild"
    /\ outcome' = NoOutcome
    /\ UNCHANGED <<config, pdf_dir_exists, pdf_dir, metadata_file>>

\* lines 357-364: _rebuild_vectorstore_from_existing_files
ForceRebuild_Rebuild ==
    /\ pc = "force_rebuild"
    /\ LET all_files == DOMAIN _scan_pdf_files(pdf_dir_exists, pdf_dir)
       IN  \E embed_ok \in BOOLEAN :
            /\ vectorstore' = create_vectorstore_from_files(
                                all_files, pdf_dir_exists, pdf_dir, embed_ok, "rebuilt")
            /\ calls' = calls
                   \o <<Call("_rebuild_vectorstore_from_existing_files",
                             vectorstore' # None)>>
                   \o CreateCalls(all_files, pdf_dir_exists, pdf_dir, embed_ok)
            /\ IF vectorstore' = None
               THEN Return(None)
               ELSE pc' = "save" /\ UNCHANGED outcome
    /\ UNCHANGED <<config, disk, now, entry, new_files, modified_files,
                   deleted_files, processed_files, start>>

(* ----------------------------- specification --------------------------- *)
Environment ==
    \/ WriteFile
    \/ DeleteFile
    \/ RenameFile
    \/ RemoveDir
    \/ MakeDir
    \/ CorruptMetadataFile
    \/ DamageIndexFiles

Step ==
    \/ GetOrCreate_Load
    \/ GetOrCreate_Create
    \/ GetOrCreate_Update
    \/ GetOrCreate_NoChange
    \/ Update_Deleted
    \/ Update_Add
    \/ Update_Fallback
    \/ SaveVectorstore
    \/ UpdateFileMetadata
    \/ ForceRebuild_Remove
    \/ ForceRebuild_Rebuild

Next == Environment \/ Step

Spec == Init /\ [][Next]_vars

\* a call that has started runs on: the method is synchronous
FairSpec == Spec /\ WF_vars(Step)

\* get_or_create_vectorstore alone, over a directory whose files change
SyncStep ==
    \/ GetOrCreate_Load
    \/ GetOrCreate_Create
    \/ GetOrCreate_Update
    \/ GetOrCreate_NoChange
    \/ Update_Deleted
    \/ Update_Add
    \/ Update_Fallback
    \/ SaveVectorstore
    \/ UpdateFileMetadata

SyncNext == WriteFile \/ DeleteFile \/ SyncStep

FairSyncSpec == Init /\ [][SyncNext]_vars /\ WF_vars(SyncStep)

\* Another process writes a file of pdf_dir while get_or_create_vectorstore
\* runs: after the change set was computed and the documents were loaded
\* (lines 371-394), before update_file_metadata scans the directory again
\* (line 302).  The call in progress goes on.
ExternalWrite ==
    /\ pc = "metadata"
    /\ entry = "get_or_create_vectorstore"
    /\ pdf_dir_exists
    /\ edits < MaxEdits
    /\ edits' = edits + 1
    /\ \E p \in Files, c \in Contents, t \in 1..MaxMtime :
        /\ pdf_dir[p] # [present |-> TRUE, content |-> c, mtime |-> t]
        /\ pdf_dir' = [pdf_dir EXCEPT ![p] = [present |-> TRUE, content |-> c, mtime |-> t]]
    /\ UNCHANGED <<rebuild_on_delete, delete_threshold, probe, pdf_dir_exists,
                   metadata_file, index_files, now, pc, entry, locals, calls,
                   outcome, start, transcript>>

RaceNext == Next \/ ExternalWrite

\* the calls, over a directory that is also written while a call runs
RaceSpec == Init /\ [][RaceNext]_vars

(* ---------------------- helper methods on their own -------------------- *)
\* st_mtime values of the directories and tables the helpers are called with
UnitStamps == {1, 2}

UnitDirs(stamps) ==
    [Files -> {Absent} \cup [present : {TRUE}, content : Contents,
                             mtime : stamps]]

\* tables: the fingerprints of some directory, never or once processed
UnitTables(stamps) ==
    {[p \in DOMAIN _scan_pdf_files(TRUE, dir) |->
         [_scan_pdf_files(TRUE, dir)[p] EXCEPT !.last_processed = t]] :
        dir \in UnitDirs(stamps), t \in {0, 1}}

\* file_metadata.json: missing, not JSON, not UTF-8, or a written table
UnitMetadataFiles(stamps) ==
    {NoFile, [state |-> "corrupt", text |-> EmptyTable],
     [state |-> "undecodable", text |-> EmptyTable]}
        \cup {_save_file_metadata(NoFile, t) : t \in UnitTables(stamps)}

\* the arguments of the helper called
UnitInputs(stamps) ==
    {[NoProbe EXCEPT !.f = "_get_file_metadata", !.file = file] :
        file \in UnitMetadataFiles(stamps)}
    \cup {[NoProbe EXCEPT !.f = "_save_file_metadata", !.file = file, !.table = t] :
            file \in UnitMetadataFiles({1}), t \in UnitTables(stamps)}
    \cup {[NoProbe EXCEPT !.f = "_scan_pdf_files", !.exists = e, !.dir = dir] :
            e \in BOOLEAN, dir \in UnitDirs(stamps)}
    \cup {[NoProbe EXCEPT !.f = "check_file_changes", !.file = file,
                          !.exists = e, !.dir = dir] :
            file \in UnitMetadataFiles(stamps), e \in BOOLEAN,
            dir \in UnitDirs(stamps)}
    \cup {[NoProbe EXCEPT !.f = "_load_and_split_documents", !.paths = paths,
                          !.exists = e, !.dir = dir] :
            paths \in SUBSET Files, e \in BOOLEAN, dir \in UnitDirs(stamps)}
    \cup {[NoProbe EXCEPT !.f = "update_file_metadata", !.file = file,
                          !.paths = paths, !.exists = e, !.dir = dir] :
            file \in UnitMetadataFiles({1}), paths \in SUBSET Files,
            e \in BOOLEAN, dir \in UnitDirs(stamps)}

UnitInit ==
    /\ Idle
    /\ rebuild_on_delete
    /\ delete_threshold = 1
    /\ probe \in UnitInputs(UnitStamps)

\* the helper named is called and its result kept
Apply(name, result) ==
    /\ probe.f = name
    /\ ~probe.applied
    /\ probe' = [probe EXCEPT !.applied = TRUE, !.out = result]
    /\ UNCHANGED <<rebuild_on_delete, delete_threshold, edits, disk, now, pc,
                   entry, locals, calls, outcome, start, transcript>>

Unit_get_file_metadata ==
    Apply("_get_file_metadata",
          [raised |-> _get_file_metadata_raises(probe.file),
           value |-> _get_file_metadata(probe.file)])

\* _save_file_metadata(table), then _get_file_metadata()
Unit_save_file_metadata ==
    Apply("_save_file_metadata",
          LET file == _save_file_metadata(probe.file, probe.table)
          IN  [file |-> file,
               raised |-> _get_file_metadata_raises(file),
               value |-> _get_file_metadata(file)])

Unit_scan_pdf_files ==
    Apply("_scan_pdf_files", _scan_pdf_files(probe.exists, probe.dir))

Unit_check_file_changes ==
    Apply("check_file_changes",
          [raised |-> _get_file_metadata_raises(probe.file),
           value |-> check_file_changes(probe.file, probe.exists, probe.dir)])

Unit_load_and_split_documents ==
    Apply("_load_and_split_documents",
          _load_and_split_documents(probe.paths, probe.exists, probe.dir))

\* update_file_metadata(processed_files) at clock 2: the file it leaves
Unit_update_file_metadata ==
    Apply("update_file_metadata",
          IF _get_file_metadata_raises(probe.file) THEN probe.file
          ELSE _save_file_metadata(
                   probe.file,
                   UpdatedTable(probe.file, probe.paths, probe.exists,
                                probe.dir, 2)))

UnitNext ==
    \/ Unit_get_file_metadata
    \/ Unit_save_file_metadata
    \/ Unit_scan_pdf_files
    \/ Unit_check_file_changes
    \/ Unit_load_and_split_documents
    \/ Unit_update_file_metadata

UnitSpec == UnitInit /\ [][UnitNext]_vars

\* the helper named has been called on its own
Applied(name) == probe.f = name /\ probe.applied

(* ------------------------------ SQLManager ----------------------------- *)
\* uuid.uuid4() of the n-th conversation created: no value is given twice
uuid4(n) == "session-" \o ToString(n)

\* the session ids callers pass; one that was not created yet, or was
\* deleted, is an unknown session
SessionIds == {uuid4(n) : n \in 1..MaxConversations}

\* CHECK (role IN ('user', 'assistant'))
Roles == {"user", "assistant"}

Questions == {"q1"}

Answers == {"r1"}

\* get_conversation_id: the id of the row with this session_id (UNIQUE), or
\* None (0 here; AUTOINCREMENT ids start at 1)
get_conversation_id(db, session_id) ==
    IF \E c \in db.conversations : c.session_id = session_id
    THEN (CHOOSE c \in db.conversations : c.session_id = session_id).id
    ELSE 0

\* SELECT ... FROM messages WHERE conversation_id = ?, in the order the
\* rows were inserted
RowsOf(db, conversation_id) ==
    LET Of(m) == m.conversation_id = conversation_id
    IN  SelectSeq(db.messages, Of)

\* get_messages: [] for an unknown session
get_messages(db, session_id) ==
    LET conversation_id == get_conversation_id(db, session_id)
        rows == RowsOf(db, conversation_id)
    IN  IF conversation_id = 0 THEN <<>>
        ELSE [i \in DOMAIN rows |->
                [id |-> rows[i].id, role |-> rows[i].role,
                 content |-> rows[i].content]]

\* get_recent_messages: messages[-count:] as (role, content)
get_recent_messages(db, session_id, count) ==
    LET messages == get_messages(db, session_id)
        recent == IF Len(messages) > count
                  THEN SubSeq(messages, Len(messages) - count + 1, Len(messages))
                  ELSE messages
    IN  [i \in DOMAIN recent |-> <<recent[i].role, recent[i].content>>]

\* create_conversation: INSERT INTO conversations with the next id
create_conversation(db) ==
    LET n == db.sqlite_sequence.conversations + 1
    IN  [conversations |-> db.conversations \cup {[id |-> n, session_id |-> uuid4(n)]},
         messages |-> db.messages,
         sqlite_sequence |-> [db.sqlite_sequence EXCEPT !.conversations = n]]

\* add_message raises ValueError for an unknown session, and the INSERT
\* raises IntegrityError for a role the CHECK constraint rejects
add_message_raises(db, session_id, role) ==
    get_conversation_id(db, session_id) = 0 \/ role \notin Roles

\* add_message: INSERT INTO messages with the next id; nothing when it raises
add_message(db, session_id, role, content) ==
    LET n == db.sqlite_sequence.messages + 1
    IN  IF add_message_raises(db, session_id, role) THEN db
        ELSE [conversations |-> db.conversations,
              messages |-> Append(db.messages,
                                  [id |-> n,
                                   conversation_id |-> get_conversation_id(db, session_id),
                                   role |-> role, content |-> content]),
              sqlite_sequence |-> [db.sqlite_sequence EXCEPT !.messages = n]]

\* delete_conversation without its first DELETE
delete_conversation_KeepsMessages(db, session_id) ==
    LET conversation_id == get_conversation_id(db, session_id)
    IN  IF conversation_id = 0 THEN db
        ELSE [db EXCEPT !.conversations = {c \in @ : c.id # conversation_id}]

\* delete_conversation: for a known session, DELETE FROM messages and then
\* DELETE FROM conversations; nothing for an unknown one
delete_conversation(db, session_id) ==
    LET conversation_id == get_conversation_id(db, session_id)
        Other(m) == m.conversation_id # conversation_id
    IN  IF conversation_id = 0 THEN db
        ELSE [db EXCEPT !.messages = SelectSeq(@, Other),
                        !.conversations = {c \in @ : c.id # conversation_id}]

(* --------------------------- ChatHistoryManager ------------------------ *)
\* ConversationBufferWindowMemory.save_context: the two messages are
\* appended to chat_memory.messages; k is applied only where the buffer is
\* read through load_memory_variables, which this class never calls
save_context(messages, input, answer) ==
    messages \o <<[role |-> "user", content |-> input],
                  [role |-> "assistant", content |-> answer]>>

RECURSIVE LoadPairs(_, _)
\* lines 86-95: the messages at i and i + 1 are saved when they are a user
\* message followed by an assistant message
LoadPairs(recent, i) ==
    IF i + 1 > Len(recent) THEN <<>>
    ELSE (IF recent[i][1] = "user" /\ recent[i + 1][1] = "assistant"
          THEN save_context(<<>>, recent[i][2], recent[i + 1][2])
          ELSE <<>>)
         \o LoadPairs(recent, i + 2)

\* _init_memory and _load_chat_history: the memory after construction
_load_chat_history(db, session_id, memory_k) ==
    LoadPairs(get_recent_messages(db, session_id, memory_k * 2), 1)

\* add_user_message: the row is inserted when auto_save is set; an
\* exception of add_message is logged and None (0) returned
add_user_message(db, manager, message) ==
    LET stored == manager.auto_save
                  /\ ~add_message_raises(db, manager.session_id, "user")
        after == IF stored
                 THEN add_message(db, manager.session_id, "user", message)
                 ELSE db
    IN  [database |-> after, messages |-> manager.messages,
         value |-> IF stored THEN after.sqlite_sequence.messages ELSE 0]

\* add_ai_message: likewise, and then the memory gets the exchange when
\* user_input is given; an exception of add_message skips the memory
add_ai_message(db, manager, message, user_input) ==
    LET raised == manager.auto_save
                  /\ add_message_raises(db, manager.session_id, "assistant")
        stored == manager.auto_save /\ ~raised
        after == IF stored
                 THEN add_message(db, manager.session_id, "assistant", message)
                 ELSE db
    IN  [database |-> after,
         messages |-> IF ~raised /\ user_input # ""
                      THEN save_context(manager.messages, user_input, message)
                      ELSE manager.messages,
         value |-> IF stored THEN after.sqlite_sequence.messages ELSE 0]

\* add_conversation_pair
add_conversation_pair(db, manager, user_message, ai_message) ==
    LET first == add_user_message(db, manager, user_message)
        second == add_ai_message(first.database, manager, ai_message, user_message)
    IN  [database |-> second.database, messages |-> second.messages,
         value |-> <<first.value, second.value>>]

\* get_chat_history_for_llm and get_chat_history_as_dicts: every message of
\* memory.chat_memory.messages
get_chat_history_for_llm(manager) == manager.messages

(* --------------------------- RAGQueryProcessor ------------------------- *)
\* process_query_with_memory, lines 304-329.  sources is what
\* result.get("sources", []) gives: empty unless return_sources was set and
\* sources were found.  With sources, add_user_message is called and then
\* add_ai_message with three arguments, which raises TypeError (it takes
\* two) before anything is stored; line 326 catches it.
process_query_with_memory(db, manager, question, response, success, auto_save, sources) ==
    IF ~(success /\ auto_save)
    THEN [database |-> db, messages |-> manager.messages, value |-> success]
    ELSE IF sources
    THEN [add_user_message(db, manager, question) EXCEPT !.value = success]
    ELSE [add_conversation_pair(db, manager, question, response)
             EXCEPT !.value = success]

(* ------------------------ the conversation store ----------------------- *)
\* what no call on chat.db or on the manager changes
indexing ==
    <<rebuild_on_delete, delete_threshold, edits, probe, disk, now, pc, entry,
      locals, calls, outcome, start>>

\* a call, with what it was given and what it found
Reply(name, session_id, value, raised) ==
    [f |-> name, session_id |-> session_id, value |-> value, raised |-> raised,
     database |-> database, messages |-> chat.messages]

SQL_create_conversation ==
    /\ database.sqlite_sequence.conversations < MaxConversations
    /\ database' = create_conversation(database)
    /\ reply' = Reply("create_conversation",
                      uuid4(database'.sqlite_sequence.conversations), 0, FALSE)
    /\ UNCHANGED <<indexing, chat>>

SQL_add_message ==
    /\ database.sqlite_sequence.messages < MaxRows
    /\ \E s \in SessionIds, role \in Roles \cup {"system"},
          content \in Questions \cup Answers :
        /\ database' = add_message(database, s, role, content)
        /\ reply' = Reply("add_message", s,
                          database'.sqlite_sequence.messages,
                          add_message_raises(database, s, role))
    /\ UNCHANGED <<indexing, chat>>

\* the value is cursor.rowcount > 0 of the second DELETE, which removes the
\* one row of a known session
SQL_delete_conversation ==
    /\ \E s \in SessionIds :
        /\ database' = delete_conversation(database, s)
        /\ reply' = Reply("delete_conversation", s,
                          get_conversation_id(database, s) # 0, FALSE)
    /\ UNCHANGED <<indexing, chat>>

\* ChatHistoryManager(session_id, memory_k, sql_manager, auto_save): a new
\* conversation is created when no session_id is given.  A manager
\* constructed later takes the place of the one before.
Chat_init ==
    /\ \E given \in SessionIds \cup {""}, k \in 1..MaxMemoryK, auto \in BOOLEAN :
        /\ given = "" => database.sqlite_sequence.conversations < MaxConversations
        /\ database' = IF given = "" THEN create_conversation(database) ELSE database
        /\ LET session_id == IF given = ""
                             THEN uuid4(database'.sqlite_sequence.conversations)
                             ELSE given
           IN  /\ chat' = [session_id |-> session_id, memory_k |-> k,
                           auto_save |-> auto,
                           messages |-> _load_chat_history(database', session_id, k)]
               /\ reply' = Reply("__init__", session_id, 0, FALSE)
    /\ UNCHANGED indexing

\* there is a manager, and room for one more exchange
ChatReady ==
    /\ chat # NoChat
    /\ Len(chat.messages) + 2 <= 2 * MaxExchanges
    /\ database.sqlite_sequence.messages + 2 <= MaxRows

Chat_add_user_message ==
    /\ ChatReady
    /\ \E message \in Questions :
        LET result == add_user_message(database, chat, message)
        IN  /\ database' = result.database
            /\ reply' = Reply("add_user_message", chat.session_id, result.value, FALSE)
    /\ UNCHANGED <<indexing, chat>>

Chat_add_ai_message ==
    /\ ChatReady
    /\ \E message \in Answers, user_input \in Questions \cup {""} :
        LET result == add_ai_message(database, chat, message, user_input)
        IN  /\ database' = result.database
            /\ chat' = [chat EXCEPT !.messages = result.messages]
            /\ reply' = Reply("add_ai_message", chat.session_id, result.value, FALSE)
    /\ UNCHANGED indexing

Chat_add_conversation_pair ==
    /\ ChatReady
    /\ \E user_message \in Questions, ai_message \in Answers :
        LET result == add_conversation_pair(database, chat, user_message, ai_message)
        IN  /\ database' = result.database
            /\ chat' = [chat EXCEPT !.messages = result.messages]
            /\ reply' = Reply("add_conversation_pair", chat.session_id,
                              result.value, FALSE)
    /\ UNCHANGED indexing

\* RAGQueryProcessor.process_query_with_memory(question, chat, auto_save,
\* return_sources); success: process_query did not fail; found: the
\* retriever returned documents with sources
Rag_process_query_with_memory ==
    /\ ChatReady
    /\ \E question \in Questions, response \in Answers, success \in BOOLEAN,
          auto_save \in BOOLEAN, return_sources \in BOOLEAN, found \in BOOLEAN :
        LET result == process_query_with_memory(
                          database, chat, question, response, success,
                          auto_save, return_sources /\ found)
        IN  /\ database' = result.database
            /\ chat' = [chat EXCEPT !.messages = result.messages]
            /\ reply' = [Reply("process_query_with_memory", chat.session_id,
                               result.value, FALSE)
                           EXCEPT !.raised = ~success,
                                  !.value = [auto_save |-> auto_save,
                                             sources |-> return_sources /\ found,
                                             question |-> question,
                                             response |-> response]]
    /\ UNCHANGED indexing

\* SQLManager alone
SqlNext ==
    \/ SQL_create_conversation
    \/ SQL_add_message
    \/ SQL_delete_conversation

ChatNext ==
    \/ SQL_create_conversation
    \/ SQL_delete_conversation
    \/ Chat_init
    \/ Chat_add_user_message
    \/ Chat_add_ai_message
    \/ Chat_add_conversation_pair
    \/ Rag_process_query_with_memory

ChatInit ==
    /\ Idle
    /\ rebuild_on_delete
    /\ delete_threshold = 1
    /\ probe = NoProbe

SqlSpec == ChatInit /\ [][SqlNext]_vars

\* the manager and the query processor over chat.db
ChatSpec == ChatInit /\ [][ChatNext]_vars

TypeOK ==
    /\ pc \in {"idle", "branch", "update_deleted", "update_add",
               "update_fallback", "save", "metadata", "force_rebuild"}
    /\ now \in 0..MaxPasses
    /\ \A p \in Files : pdf_dir[p] \in FileStates
    /\ DOMAIN _get_file_metadata(metadata_file) \subseteq Files

(* ------------------------------- claims -------------------------------- *)
\* a call of the named method has just ended
Ended(method) == pc = "idle" /\ entry = method /\ outcome.status # "none"

SyncEnded == Ended("get_or_create_vectorstore")

EmbeddingCalls ==
    Count("FAISS.from_documents") + Count("add_documents") + Count("merge_from")

UpdateReturned ==
    /\ entry = "get_or_create_vectorstore"
    /\ pc = "save"
    /\ calls[1] = Call("load_vectorstore", TRUE)

\* the synchronisation took the update branch (lines 391-395) and has ended
UpdateEnded == SyncEnded /\ Count("save_vectorstore") > 0 /\ calls[1].ok

RebuildCalls == Count("_rebuild_vectorstore_from_existing_files")

\* the persisted table
Table == _get_file_metadata(metadata_file)

\* C2: update_vectorstore calls the rebuild exactly once and returns the
\* rebuilt index when files were deleted, rebuild_on_delete is set and the
\* threshold is reached; otherwise it never calls the rebuild and returns the
\* index it was given.
C2_RebuildDecidesResult ==
    UpdateReturned =>
        IF deleted_files # {} /\ rebuild_on_delete
           /\ Cardinality(deleted_files) >= delete_threshold
        THEN RebuildCalls = 1 /\ vectorstore.id = "rebuilt"
        ELSE RebuildCalls = 0 /\ vectorstore.id = "loaded"

\* C3: with rebuild_on_delete set, after a synchronisation that found at
\* least delete_threshold deleted files, the persisted and returned index
\* holds chunks of existing files only and no deleted path is in the table.
C3_RebuildPurgesDeleted ==
    (UpdateEnded /\ outcome.status = "returned" /\ rebuild_on_delete
       /\ Cardinality(deleted_files) >= delete_threshold) =>
        /\ \A c \in Chunks :
              (index_files.docs[c] > 0 \/ vectorstore.docs[c] > 0)
                  => pdf_dir[c.source_file].present
        /\ deleted_files \cap DOMAIN Table = {}

C5_EntryOnlyIfIngested ==
    (pc = "idle" /\ outcome.status = "returned") =>
        \A p \in DOMAIN Table :
            /\ index_files.state = "ok"
            /\ \E c \in Chunks : c.source_file = p /\ index_files.docs[c] > 0

\* C6: when save_vectorstore raises, get_or_create_vectorstore raises and the
\* fingerprint file is as it was when the call started.
C6_SaveFailureNotCommitted ==
    (SyncEnded /\ Failed("save_vectorstore")) =>
        /\ outcome.status = "raised"
        /\ metadata_file = start.metadata_file

\* save_vectorstore raised in a synchronisation that had files to record
C6_Witness ==
    /\ SyncEnded
    /\ Failed("save_vectorstore")
    /\ processed_files # {}
    /\ outcome.status = "raised"

\* add_documents raised and the fallback did not merge
AddAndFallbackFailed == Failed("add_documents") /\ ~Succeeded("merge_from")

\* C7: when add_documents fails and the fallback fails too, the call reports
\* failure and persists neither the index nor the table.
C7_FailedUpdateNotPersisted ==
    (SyncEnded /\ AddAndFallbackFailed) =>
        /\ outcome.status = "raised"
        /\ ~Succeeded("save_vectorstore")
        /\ ~Succeeded("_save_file_metadata")

\* the position of the last call of name in calls, 0 if there is none
LastCall(name) ==
    IF Count(name) = 0 THEN 0
    ELSE CHOOSE i \in DOMAIN calls :
            /\ calls[i].f = name
            /\ \A j \in DOMAIN calls : calls[j].f = name => j <= i

\* the documents update_vectorstore started adding to: the rebuilt index's,
\* or those of the index it was given
UpdateBase ==
    IF vectorstore.id = "rebuilt"
    THEN _load_and_split_documents(Files, pdf_dir_exists, pdf_dir)
    ELSE start.index_files.docs

\* C8, in every state: add_documents and merge_from are called at most once;
\* merge_from only after add_documents raised and the fresh index of the new
\* and modified files was built, which happens once; and the index
\* update_vectorstore returns holds the added documents once, or not at all.
C8_SingleFallback ==
    /\ Count("add_documents") <= 1
    /\ Count("merge_from") <= 1
    /\ Count("merge_from") = 1 =>
          /\ Failed("add_documents")
          /\ LastCall("add_documents") < LastCall("FAISS.from_documents")
          /\ calls[LastCall("FAISS.from_documents")].ok
          /\ LastCall("FAISS.from_documents") < LastCall("merge_from")
    /\ (Failed("add_documents") /\ pc # "update_fallback") =>
          Cardinality({i \in DOMAIN calls :
                          /\ calls[i].f = "FAISS.from_documents"
                          /\ i > LastCall("add_documents")}) = 1
    /\ UpdateReturned =>
          vectorstore.docs =
             IF Succeeded("add_documents") \/ Succeeded("merge_from")
             THEN AddDocs(UpdateBase,
                          _load_and_split_documents(new_files \cup modified_files,
                                                    pdf_dir_exists, pdf_dir))
             ELSE UpdateBase

\* C8: the above always holds, and a call that has started ends.
C8_OneFallbackThenEnds ==
    /\ []C8_SingleFallback
    /\ (pc # "idle") ~> (pc = "idle")

\* add_documents raised, the fresh index was merged, and the call has ended
C8_Witness ==
    /\ SyncEnded
    /\ outcome.status = "returned"
    /\ Failed("add_documents")
    /\ Succeeded("merge_from")

\* C9: the fingerprint file is written at most once per call, as its last
\* step, only after save_vectorstore succeeded and the chunks were added; a
\* call that fails never writes it.
C9_TableWrittenLastAfterSuccess ==
    /\ Count("_save_file_metadata") <= 1
    /\ Count("_save_file_metadata") = 1 =>
          /\ calls[Len(calls)].f = "_save_file_metadata"
          /\ Succeeded("save_vectorstore")
          /\ ~AddAndFallbackFailed

\* C10: when the index loads and the change set is empty, the call returns
\* the loaded index, writes neither the index files nor the fingerprint file
\* and never calls _load_and_split_documents.
C10_NoChangeNoWrite ==
    (SyncEnded /\ calls[1] = Call("load_vectorstore", TRUE)
       /\ Succeeded("check_file_changes")
       /\ new_files \cup modified_files \cup deleted_files = {}) =>
        /\ outcome = [status |-> "returned", value |-> "loaded"]
        /\ index_files = start.index_files
        /\ metadata_file = start.metadata_file
        /\ Count("save_vectorstore") = 0
        /\ Count("_save_file_metadata") = 0
        /\ Count("_load_and_split_documents") = 0

\* a call that loaded a non-empty index and found nothing changed has ended
C10_Witness ==
    /\ SyncEnded
    /\ calls[1] = Call("load_vectorstore", TRUE)
    /\ new_files \cup modified_files \cup deleted_files = {}
    /\ \E c \in Chunks : vectorstore.docs[c] > 0
    /\ DOMAIN Table # {}

\* the paths _scan_pdf_files finds, and their chunks
Scanned == DOMAIN _scan_pdf_files(pdf_dir_exists, pdf_dir)

ScannedDocs == _load_and_split_documents(Scanned, pdf_dir_exists, pdf_dir)

\* no call to the embedding library or to the disk raised in this call
NothingRaised ==
    /\ Succeeded("check_file_changes")
    /\ ~Failed("FAISS.from_documents")
    /\ ~Failed("add_documents")
    /\ ~Failed("merge_from")
    /\ ~Failed("save_vectorstore")
    /\ ~Failed("_save_file_metadata")

\* C11 as stated: after a call that found no index files and at least one
\* scanned file, chunks of every scanned file are in the persisted index,
\* vectorstore_exists() is true and the table's keys are the scanned files.
C11_BootstrapIngestsAll ==
    (SyncEnded /\ start.index_files.state = "missing" /\ Scanned # {}) =>
        /\ \A p \in Scanned :
              \E c \in Chunks : c.source_file = p /\ index_files.docs[c] > 0
        /\ vectorstore_exists(index_files)
        /\ DOMAIN Table = Scanned

\* C11 amended: when some scanned file loads and nothing raises, the call
\* returns the index it built, the persisted index holds the chunks of
\* every scanned file that loads, vectorstore_exists() is true and the
\* table's keys are the scanned files.
C11_Bootstrap ==
    (SyncEnded /\ start.index_files.state = "missing" /\ Scanned # {}
       /\ ScannedDocs # NoDocs /\ NothingRaised) =>
        /\ outcome = [status |-> "returned", value |-> "created"]
        /\ index_files = [state |-> "ok", docs |-> ScannedDocs]
        /\ vectorstore_exists(index_files)
        /\ DOMAIN Table = Scanned

\* a bootstrap has ended over a directory that the table already described:
\* the change set was empty, the index was built from the scanned files
C11_Witness ==
    /\ SyncEnded
    /\ start.index_files.state = "missing"
    /\ NothingRaised
    /\ new_files \cup modified_files = {}
    /\ Scanned # {}
    /\ index_files = [state |-> "ok", docs |-> ScannedDocs]
    /\ DOMAIN Table = Scanned

\* the arguments of the helper called on its own: the stored table, and
\* whether a path is in the directory that is scanned
ProbeStored == _get_file_metadata(probe.file)

ProbeScanned(p) == probe.exists /\ probe.dir[p].present

\* C12: the lists check_file_changes returns are pairwise disjoint; a path is
\* new iff it is scanned and not in the table, modified iff it is in both
\* and its hash or its modified_time differs from the stored one, deleted
\* iff it is in the table and not scanned, and in no list when it is in
\* both and unchanged.
C12_Classification ==
    (Applied("check_file_changes") /\ ~probe.out.raised) =>
        LET lists == probe.out.value
        IN  /\ lists.new_files \cap lists.modified_files = {}
            /\ lists.new_files \cap lists.deleted_files = {}
            /\ lists.modified_files \cap lists.deleted_files = {}
            /\ \A p \in Files :
                 LET stored == p \in DOMAIN ProbeStored
                     same ==
                        /\ ProbeStored[p].hash = _get_file_hash(probe.dir[p].content)
                        /\ ProbeStored[p].modified_time = probe.dir[p].mtime
                 IN  /\ p \in lists.new_files <=> (ProbeScanned(p) /\ ~stored)
                     /\ p \in lists.modified_files <=>
                           (ProbeScanned(p) /\ stored /\ ~same)
                     /\ p \in lists.deleted_files <=> (stored /\ ~ProbeScanned(p))
                     /\ (ProbeScanned(p) /\ stored /\ same) =>
                           p \notin lists.new_files \cup lists.modified_files
                                       \cup lists.deleted_files

\* check_file_changes has returned a touched file (same hash, other time
\* stamp) and an edited file (other hash, same time stamp) as modified
C12_Witness ==
    /\ Applied("check_file_changes")
    /\ ~probe.out.raised
    /\ \E p \in probe.out.value.modified_files :
          /\ ProbeStored[p].hash = _get_file_hash(probe.dir[p].content)
          /\ ProbeStored[p].modified_time # probe.dir[p].mtime
    /\ \E p \in probe.out.value.modified_files :
          /\ ProbeStored[p].hash # _get_file_hash(probe.dir[p].content)
          /\ ProbeStored[p].modified_time = probe.dir[p].mtime

\* the files added to the directory since the table was last written
AddedFiles == Scanned \ DOMAIN _get_file_metadata(start.metadata_file)

C14_LoadNeverRaises ==
    (Applied("_get_file_metadata") /\ probe.file.state # "ok") =>
        /\ ~probe.out.raised
        /\ probe.out.value = EmptyTable

C16_LoadFailureRebuilds_Always ==
    (SyncEnded /\ Failed("load_vectorstore")) =>
        /\ outcome.status = "returned"
        /\ index_files = [state |-> "ok", docs |-> ScannedDocs]
        /\ DOMAIN Table = Scanned

\* C16 amended: when the index files are missing or do not load, the call
\* raises only if a later call raised; when nothing raises it persists an
\* index built from all scanned files and a table for those files if some
\* scanned file loads, and returns None leaving the disk as it was if none
\* does.
C16_LoadFailureRebuilds ==
    (SyncEnded /\ Failed("load_vectorstore")) =>
        /\ outcome.status = "raised" => ~NothingRaised
        /\ NothingRaised =>
              IF ScannedDocs # NoDocs
              THEN /\ outcome = [status |-> "returned", value |-> "created"]
                   /\ index_files = [state |-> "ok", docs |-> ScannedDocs]
                   /\ DOMAIN Table = Scanned
              ELSE /\ outcome = [status |-> "returned", value |-> "None"]
                   /\ index_files = start.index_files
                   /\ metadata_file = start.metadata_file

\* index files that do not load were replaced by an index of the scanned
\* files although the table reported no new or modified file
C16_Witness ==
    /\ SyncEnded
    /\ start.index_files.state = "corrupt"
    /\ NothingRaised
    /\ new_files \cup modified_files = {}
    /\ ScannedDocs # NoDocs
    /\ index_files = [state |-> "ok", docs |-> ScannedDocs]

\* a file of the list that _load_and_split_documents can load
ProbeLoads(p) ==
    ProbeScanned(p) /\ probe.dir[p].content \in Loadable

\* C17: _load_and_split_documents returns no chunk of a file of the list
\* that is missing or does not load, the chunks of every other file of the
\* list, and only chunks whose source_file is the path of the file they
\* were split from.
C17_SkipsUnreadableFiles ==
    Applied("_load_and_split_documents") =>
        /\ \A p \in probe.paths :
              IF ProbeLoads(p)
              THEN probe.out[[source_file |-> p,
                              text |-> probe.dir[p].content]] = 1
              ELSE \A c \in Chunks : c.source_file = p => probe.out[c] = 0
        /\ \A c \in Chunks :
              probe.out[c] > 0 =>
                  /\ c.source_file \in probe.paths
                  /\ ProbeLoads(c.source_file)
                  /\ probe.dir[c.source_file].content = c.text

\* a list of one file that does not load and one that does gave the chunks
\* of the second
C17_Witness ==
    /\ Applied("_load_and_split_documents")
    /\ \E p \in probe.paths : ProbeScanned(p) /\ ~ProbeLoads(p)
    /\ \E p \in probe.paths :
          /\ ProbeLoads(p)
          /\ probe.out[[source_file |-> p, text |-> probe.dir[p].content]] = 1

\* C18, the part about the state: a call over a missing directory that
\* returns leaves the index files and the fingerprint file as they were.
C18_MissingDirChangesNothing ==
    (SyncEnded /\ ~pdf_dir_exists /\ outcome.status = "returned") =>
        /\ index_files = start.index_files
        /\ metadata_file = start.metadata_file

\* C18 amended: _scan_pdf_files is empty when pdf_dir does not exist; a
\* call over a missing directory raises only if reading the table or a
\* write raised, and when nothing raises it leaves the disk as it was if no
\* index loads, and otherwise keeps the loaded index and leaves no entry in
\* the table.
C18_MissingDir ==
    /\ ~pdf_dir_exists => _scan_pdf_files(pdf_dir_exists, pdf_dir) = EmptyTable
    /\ (SyncEnded /\ ~pdf_dir_exists) =>
          /\ outcome.status = "raised" => ~NothingRaised
          /\ NothingRaised =>
                IF Succeeded("load_vectorstore")
                THEN /\ outcome = [status |-> "returned", value |-> "loaded"]
                     /\ index_files = start.index_files
                     /\ DOMAIN Table = {}
                     /\ Count("_save_file_metadata") = 0 =>
                           metadata_file = start.metadata_file
                ELSE /\ outcome = [status |-> "returned", value |-> "None"]
                     /\ index_files = start.index_files
                     /\ metadata_file = start.metadata_file

\* a call over a missing directory found entries in the table, and removed
\* them
C18_Witness ==
    /\ SyncEnded
    /\ ~pdf_dir_exists
    /\ NothingRaised
    /\ DOMAIN _get_file_metadata(start.metadata_file) # {}
    /\ DOMAIN Table = {}

\* C19: the table update_file_metadata(processed) writes has as keys the
\* previous keys and the processed paths that are in the current scan; a
\* processed path of the scan has its current fingerprint and a
\* last_processed that is not None; every other key has its previous entry.
C19_TableUpdate ==
    (Applied("update_file_metadata") /\ ~_get_file_metadata_raises(probe.file)) =>
        LET written == _get_file_metadata(probe.out)
        IN  /\ probe.out.state = "ok"
            /\ DOMAIN written =
                  {p \in DOMAIN ProbeStored \cup probe.paths : ProbeScanned(p)}
            /\ \A p \in DOMAIN written :
                  IF p \in probe.paths
                  THEN /\ written[p].absolute_path = "pdf_dir/" \o p
                       /\ written[p].size = Len(probe.dir[p].content)
                       /\ written[p].modified_time = probe.dir[p].mtime
                       /\ written[p].hash = _get_file_hash(probe.dir[p].content)
                       /\ written[p].last_processed # 0
                  ELSE written[p] = ProbeStored[p]

\* a table with an entry of a file that is gone and a stale entry of a
\* processed file was updated
C19_Witness ==
    /\ Applied("update_file_metadata")
    /\ \E p \in DOMAIN ProbeStored : ~ProbeScanned(p)
    /\ \E p \in probe.paths \cap DOMAIN ProbeStored :
          /\ ProbeScanned(p)
          /\ ProbeStored[p].modified_time # probe.dir[p].mtime
          /\ _get_file_metadata(probe.out)[p].modified_time = probe.dir[p].mtime

ForceInProgress ==
    entry = "force_rebuild_vectorstore" /\ pc # "idle"

\* C20: force_rebuild_vectorstore removes the index files before it
\* rebuilds; the index it rebuilds holds the chunks of all scanned files;
\* it calls save_vectorstore at most once; and when the rebuild yielded an
\* index and the call returns, that index was saved once and is the one
\* persisted and returned, and every scanned file has an entry of this
\* call in the table.
C20_ForceRebuild ==
    /\ (ForceInProgress /\ pc = "force_rebuild") => ~vectorstore_exists(index_files)
    /\ (ForceInProgress /\ pc # "force_rebuild") =>
          vectorstore = [id |-> "rebuilt", docs |-> ScannedDocs]
    /\ (ForceInProgress \/ Ended("force_rebuild_vectorstore")) =>
          Count("save_vectorstore") <= 1
    /\ (Ended("force_rebuild_vectorstore") /\ outcome.status = "returned"
          /\ Succeeded("_rebuild_vectorstore_from_existing_files")) =>
          /\ Count("save_vectorstore") = 1
          /\ index_files = [state |-> "ok", docs |-> ScannedDocs]
          /\ outcome.value = "rebuilt"
          /\ DOMAIN Table = Scanned
          /\ \A p \in Scanned : Table[p].last_processed = now

\* a forced rebuild has replaced an index that held other documents
C20_Witness ==
    /\ Ended("force_rebuild_vectorstore")
    /\ outcome = [status |-> "returned", value |-> "rebuilt"]
    /\ start.index_files.state = "ok"
    /\ start.index_files.docs # ScannedDocs
    /\ index_files = [state |-> "ok", docs |-> ScannedDocs]
    /\ DOMAIN Table = Scanned

\* the incremental path was taken and the call has returned: an index was
\* loaded, the change set was not empty and the rebuild condition was not met
IncrementalEnded ==
    /\ UpdateEnded
    /\ outcome.status = "returned"
    /\ new_files \cup modified_files \cup deleted_files # {}
    /\ ~(deleted_files # {} /\ should_rebuild)

\* the chunks of the new and modified files
ChangedDocs ==
    _load_and_split_documents(new_files \cup modified_files, pdf_dir_exists, pdf_dir)

\* C21: on the incremental path only the new and modified files are loaded
\* (one load, no rebuild), the loaded index is extended and not replaced,
\* and afterwards the persisted index is the loaded one plus the chunks of
\* the new and modified files and the table has an entry of this call,
\* with the current fingerprint, for each of them.
C21_IncrementalOnly ==
    IncrementalEnded =>
        /\ RebuildCalls = 0
        /\ vectorstore.id = "loaded"
        /\ \A c \in Chunks : index_files.docs[c] >= start.index_files.docs[c]
        /\ index_files.docs = AddDocs(start.index_files.docs, ChangedDocs)
        /\ \A p \in new_files \cup modified_files :
              /\ p \in DOMAIN Table
              /\ Table[p].last_processed = now
              /\ Table[p].hash = _get_file_hash(pdf_dir[p].content)
              /\ Table[p].modified_time = pdf_dir[p].mtime

\* C24: after an incremental pass that added the chunks of the new and
\* modified files, the persisted index holds, of a modified file, chunks of
\* its current content only.
C24_ModifiedReplaced ==
    (IncrementalEnded /\ (Succeeded("add_documents") \/ Succeeded("merge_from"))) =>
        \A p \in modified_files : \A c \in Chunks :
            (c.source_file = p /\ index_files.docs[c] > 0) =>
                c.text = pdf_dir[p].content

\* the copies of each chunk this call has put into its index: all of them
\* when the index was built by this call, those beyond the persisted ones
\* when it was loaded
Inserted ==
    [c \in Chunks |->
        IF vectorstore.id = "loaded"
        THEN vectorstore.docs[c] - start.index_files.docs[c]
        ELSE vectorstore.docs[c]]

\* C25: within one call no chunk is put into the resulting index more than
\* once, whichever path the call takes.
C25_InsertedOnce ==
    (entry # "none" /\ vectorstore # None) =>
        \A c \in Chunks : Inserted[c] <= 1

\* C26, the safety half the claim rests on: a call that writes the table
\* leaves no entry of a new or modified file that loads unless a chunk of
\* its content is in the persisted index.
C26_RecordedOnlyIfAdded ==
    (SyncEnded /\ Succeeded("_save_file_metadata")) =>
        \A p \in (new_files \cup modified_files) \cap DOMAIN Table :
            pdf_dir[p].content \in Loadable =>
                index_files.docs[[source_file |-> p,
                                  text |-> pdf_dir[p].content]] > 0

\* C29: when force_rebuild_vectorstore builds no index, the index files and
\* the fingerprint file are as they were when the call started.
C29_FailedForceRebuildKeepsIndex ==
    (Ended("force_rebuild_vectorstore")
       /\ Failed("_rebuild_vectorstore_from_existing_files")) =>
        /\ index_files = start.index_files
        /\ metadata_file = start.metadata_file

\* C28: when get_or_create_vectorstore is called again after a call that
\* saved the index and raised at the table write, the persisted index holds
\* afterwards no more copies of the chunks of the new and modified files
\* than the failed call left in it.
C28_RetryAddsNothingTwice ==
    (SyncEnded /\ start.follows /\ start.previous_unrecorded) =>
        \A c \in Chunks :
            ChangedDocs[c] > 0 => index_files.docs[c] = start.index_files.docs[c]

\* C27: after a call that wrote the table, the fingerprint recorded for a
\* processed file is that of the content whose chunks the call put into the
\* index; and a processed file whose content is no longer the one that was
\* ingested is classified as modified by check_file_changes.
C27_RecordedFingerprintIsIngested ==
    (SyncEnded /\ Succeeded("_save_file_metadata")) =>
        \A p \in processed_files \cap DOMAIN Table : \A c \in Chunks :
            (c.source_file = p /\ Inserted[c] > 0) =>
                /\ Table[p].hash = _get_file_hash(c.text)
                /\ c.text # pdf_dir[p].content =>
                      p \in check_file_changes(metadata_file, pdf_dir_exists,
                                               pdf_dir).modified_files

\* C22: delete_conversation(s) on an existing session returns true and
\* removes the conversation and every message of it, so that afterwards
\* get_conversation_id(s) is None, get_messages(s) is empty and
\* add_message(s, ...) raises and inserts nothing; on an unknown session it
\* returns false and changes nothing; and whatever s is, every other
\* session has the conversation id and the messages it had.
C22_DeleteConversation ==
    /\ reply.f = "delete_conversation" =>
          LET s == reply.session_id
              before == reply.database
              conversation_id == get_conversation_id(before, s)
          IN  /\ IF conversation_id # 0
                 THEN /\ reply.value = TRUE
                      /\ get_conversation_id(database, s) = 0
                      /\ get_messages(database, s) = <<>>
                      /\ add_message_raises(database, s, "user")
                      /\ \A c \in database.conversations : c.id # conversation_id
                      /\ \A i \in DOMAIN database.messages :
                            database.messages[i].conversation_id # conversation_id
                 ELSE /\ reply.value = FALSE
                      /\ database = before
              /\ \A t \in SessionIds \ {s} :
                    /\ get_conversation_id(database, t) = get_conversation_id(before, t)
                    /\ get_messages(database, t) = get_messages(before, t)
    /\ (reply.f = "add_message"
          /\ get_conversation_id(reply.database, reply.session_id) = 0) =>
          /\ reply.raised
          /\ database = reply.database

\* a conversation with messages was deleted while another conversation
\* had messages too
C22_Witness ==
    /\ reply.f = "delete_conversation"
    /\ reply.value = TRUE
    /\ get_messages(reply.database, reply.session_id) # <<>>
    /\ get_messages(database, reply.session_id) = <<>>
    /\ \E t \in SessionIds \ {reply.session_id} :
          /\ get_messages(database, t) # <<>>
          /\ get_messages(database, t) = get_messages(reply.database, t)

\* C23: the history a manager hands to the LLM holds at most 2 * memory_k
\* messages.
C23_WindowBound ==
    chat # NoChat => Len(get_chat_history_for_llm(chat)) <= 2 * chat.memory_k

\* the rows the last call inserted into the messages table
NewRows ==
    {database.messages[i] : i \in {j \in DOMAIN database.messages :
        database.messages[j].id > reply.database.sqlite_sequence.messages}}

\* C30: after a successful process_query_with_memory with auto_save, it is
\* never the case that the user message was stored while the assistant
\* reply was neither stored nor added to the memory.
C30_UserAndReplyTogether ==
    (reply.f = "process_query_with_memory" /\ ~reply.raised
       /\ reply.value.auto_save) =>
        ~ /\ \E m \in NewRows : m.role = "user"
          /\ ~\E m \in NewRows : m.role = "assistant"
          /\ chat.messages = reply.messages

====
